---- MODULE Spec2Model ----
(***************************************************************************)
(* Trip planner: the orchestration graph (src/core/graph_builder.py,       *)
(* src/core/nodes.py), the state reducer (src/core/reducer.py), the        *)
(* session manager (src/api/workflow_service.py) and, for the no-option    *)
(* review path, the older graph draft (src/workflows/planner.py).          *)
(*                                                                         *)
(* Candidates are records [id, name, url, address]; 0 stands for an absent *)
(* (None / empty) id, url or address.  A wrapper (LodgingAgentOutput, ...) *)
(* is [present, items]; present = FALSE is Python's None.                  *)
(*                                                                         *)
(* The repository holds two drafts of the graph.  "core" is                *)
(* src/core/graph_builder.py with the nodes of src/core/nodes.py over the  *)
(* State of src/core/schemas.py, whose candidate fields are folded with    *)
(* reducer.  "workflows" is src/workflows/planner.py over the State of     *)
(* src/core/domain.py, whose fields are overwritten; it is the graph       *)
(* src/api/workflow_service.py builds.  The variable draft says which one  *)
(* a behaviour runs.  In both, an update of a candidate field reaches the  *)
(* state as the typed wrapper the node built.  In the core draft the       *)
(* transport wrapper carries its list under the name nodes.py gives it     *)
(* (intercity_transport); in the workflows draft under the name of         *)
(* domain.py (transport).                                                  *)
(*                                                                         *)
(* Specifications: Spec (core draft, one session), SpecWorkflows           *)
(* (workflows draft, one session), SpecSessions (workflows draft, two      *)
(* sessions, narrowed inputs), SpecReducer (reducer alone), SpecStatus     *)
(* (_determine_status alone), SpecGeocoding (get_coordinates_nominatim     *)
(* and the gather of the research_plan node) and SpecRag (the calls of     *)
(* add_unique_documents on one pipeline).  A resume of a run that has      *)
(* finished finds no node pending in the checkpoint: graph.ainvoke runs    *)
(* nothing and returns the stored state values.  FAISS and its docstore    *)
(* are not part of the repository: aadd_texts awaits the embeddings, adds  *)
(* the vectors, and InMemoryDocstore.add rejects an id it already holds.   *)
(***************************************************************************)
EXTENDS Integers, Sequences, FiniteSets, TLC

\* ------------------------------------------------------------------------
\* Bounds of the reducer specification
\* ------------------------------------------------------------------------
MaxId == 2
MaxExisting == 2
MaxIncoming == 2

Ids == 0..MaxId
Names == {1, 2}
Urls == {0}
Addresses == {0}

Candidates == [id : Ids, name : Names, url : Urls, address : Addresses]

SeqsUpTo(S, n) == UNION {[1..k -> S] : k \in 0..n}

NoneWrapper == [present |-> FALSE, items |-> <<>>]

Wrapper(items) == [present |-> TRUE, items |-> items]

OptWrappers(n) == {NoneWrapper} \cup {Wrapper(s) : s \in SeqsUpTo(Candidates, n)}

\* ------------------------------------------------------------------------
\* src/core/reducer.py
\* ------------------------------------------------------------------------
Range(s) == {s[k] : k \in 1..Len(s)}

\* reducer.py:36-43 (_candidate_key)
candidate_key(item) ==
    IF item.id # 0
    THEN <<"id", item.id, 0, 0>>
    ELSE <<"fallback", item.name, item.url, item.address>>

\* reducer.py:45-46
IdsWithValues(items) == {items[k].id : k \in {j \in 1..Len(items) : items[j].id # 0}}

\* reducer.py:48-52
subset_by_id(existing_items, new_items) ==
    /\ IdsWithValues(new_items) # {}
    /\ IdsWithValues(new_items) \subseteq IdsWithValues(existing_items)

subset_by_key_never(existing_items, new_items) == FALSE

subset_by_key(existing_items, new_items) ==
    /\ IdsWithValues(new_items) = {}
    /\ \A k \in 1..Len(new_items) :
          candidate_key(new_items[k]) \in {candidate_key(e) : e \in Range(existing_items)}

\* reducer.py:35,54: the branch that replaces the existing list
LengthAllowsReplace_strict(existing_items, new_items) == Len(new_items) < Len(existing_items)

LengthAllowsReplace(existing_items, new_items) == Len(new_items) <= Len(existing_items)

ReplacesExisting(existing_items, new_items) ==
    /\ existing_items # <<>>
    /\ new_items # <<>>
    /\ LengthAllowsReplace(existing_items, new_items)
    /\ (subset_by_id(existing_items, new_items) \/ subset_by_key(existing_items, new_items))

\* reducer.py:58-72: the append loop; existing_ids grows as items are added
RECURSIVE AppendNew_noaccum(_, _, _)
AppendNew_noaccum(merged_items, existing_ids, new_items) ==
    IF new_items = <<>>
    THEN merged_items
    ELSE LET item == Head(new_items)
         IN  IF item.id = 0 \/ item.id \notin existing_ids
             THEN AppendNew_noaccum(Append(merged_items, item), existing_ids, Tail(new_items))
             ELSE AppendNew_noaccum(merged_items, existing_ids, Tail(new_items))

RECURSIVE AppendNew(_, _, _)
AppendNew(merged_items, existing_ids, new_items) ==
    IF new_items = <<>>
    THEN merged_items
    ELSE LET item == Head(new_items)
         IN  IF item.id = 0 \/ item.id \notin existing_ids
             THEN AppendNew(Append(merged_items, item),
                            IF item.id # 0 THEN existing_ids \cup {item.id} ELSE existing_ids,
                            Tail(new_items))
             ELSE AppendNew(merged_items, existing_ids, Tail(new_items))

\* reducer.py:9-77
reducer_wraps(existing, new) ==
    IF ReplacesExisting(existing.items, new.items)
    THEN Wrapper(new.items)
    ELSE Wrapper(AppendNew(existing.items, IdsWithValues(existing.items), new.items))

reducer(existing, new) ==
    IF ~new.present THEN existing
    ELSE IF ~existing.present THEN new
    ELSE IF ReplacesExisting(existing.items, new.items)
         THEN Wrapper(new.items)
         ELSE Wrapper(AppendNew(existing.items, IdsWithValues(existing.items), new.items))

\* ------------------------------------------------------------------------
\* Workflow data (src/core/schemas.py, src/core/domain.py)
\* ------------------------------------------------------------------------
\* Two drafts of the graph live in the repository:
\*   "core"      src/core/graph_builder.py + src/core/nodes.py, state
\*               src/core/schemas.py:State (candidate fields reduced by reducer)
\*   "workflows" src/workflows/planner.py, state src/core/domain.py:State
\*               (every field last-write-wins); this is the draft that
\*               src/api/workflow_service.py:10 imports.
\* A behaviour runs one draft from start to end (variable draft).
\* Node updates are taken as values of the field's declared type.
Drafts == {"core", "workflows"}

Cats == {"lodging", "activities", "food", "intercity_transport"}

SingleCats == {"lodging", "intercity_transport"}

MultiCats == {"activities", "food"}

\* the name of the list field inside each wrapper.  core: as nodes.py builds
\* and reads the wrappers (nodes.py:261, 294, 326, 360); workflows:
\* domain.py:105, 121, 135, 167
ListField(d, cat) ==
    IF d = "workflows" /\ cat = "intercity_transport" THEN "transport" ELSE cat

\* the candidates the research agents can come back with
cA == [id |-> 1, name |-> 1, url |-> 0, address |-> 0]
cB == [id |-> 2, name |-> 2, url |-> 0, address |-> 0]
cN == [id |-> 0, name |-> 1, url |-> 1, address |-> 0]
tM == [id |-> 0, name |-> 2, url |-> 0, address |-> 0]

\* what agent.ainvoke can produce per category (nodes.py:89, 123-127)
AgentOutputs(cat) ==
    CASE cat = "lodging" -> {<<>>, <<cA, cB>>, <<cB>>}
      [] cat = "activities" -> {<<>>, <<cA, cN>>}
      [] cat = "food" -> {<<>>, <<cA>>}
      [] cat = "intercity_transport" -> {<<>>, <<cN, tM>>}

\* the categories whose agent can also come back without a structured
\* payload and with a text reply that cannot be parsed
UnparsableCats == {"lodging"}

\* the response of agent.ainvoke: its structured_response (None when the
\* agent produced none) and what its text reply parses to (None when it
\* cannot be parsed)
Response(structured, parsed) == [structured |-> structured, parsed |-> parsed]

AgentResponses(cat) ==
    {Response(Wrapper(out), NoneWrapper) : out \in AgentOutputs(cat)}
    \cup (IF cat \in UnparsableCats THEN {Response(NoneWrapper, NoneWrapper)} ELSE {})

\* PydanticPostModelHook.convert (post_processing.py:82-94 with 58-80): the
\* structured response when there is one, else the conversion of the text,
\* None when that fails
convert(response) ==
    IF response.structured.present THEN response.structured ELSE response.parsed

\* _extract_agent_output.  core (nodes.py:64-80 after 123-126): the
\* response handed in always has the structured_response key, holding what
\* convert returned, so the default is never taken.  workflows
\* (planner.py:162-172): the agent's response has the key only when a
\* structured response was produced
extract_agent_output(d, response, default) ==
    IF d = "core" THEN convert(response)
    ELSE IF response.structured.present THEN response.structured ELSE default

\* CandidateResearch (schemas.py:90-97): -2 is an absent directive (None),
\* -1 a directive with every field None, n >= 0 one with candidates_number n
AbsentDirective == -2
BlankDirective == -1

\* the number of candidates a research node of the core draft asks its
\* agent for (nodes.py:255, 287, 321, 354): the directive's count when it is
\* truthy, else the category's default
DefaultCandidates(cat) ==
    CASE cat = "lodging" -> 4
      [] cat = "activities" -> 5
      [] cat = "food" -> 4
      [] cat = "intercity_transport" -> 3

candidates_number(cat, directive) ==
    IF directive > 0 THEN directive ELSE DefaultCandidates(cat)

\* ResearchPlan (schemas.py:101-108); present = FALSE is None
Plan(l, a, f, t) ==
    [present |-> TRUE,
     dirs |-> [c \in Cats |-> CASE c = "lodging" -> l [] c = "activities" -> a
                                [] c = "food" -> f [] c = "intercity_transport" -> t]]

NonePlan == [present |-> FALSE, dirs |-> [c \in Cats |-> AbsentDirective]]

EmptyPlan == Plan(AbsentDirective, AbsentDirective, AbsentDirective, AbsentDirective)

\* plans the structured LLM call of research_plan can return
PlanChoices ==
    {EmptyPlan,
     Plan(2, AbsentDirective, AbsentDirective, AbsentDirective),
     Plan(AbsentDirective, 2, AbsentDirective, 1)}

Named(plan) == {c \in Cats : plan.present /\ plan.dirs[c] # AbsentDirective}

\* FinalPlan (schemas.py:272-282): an itinerary and/or a follow-up plan
NoFinalPlan == [present |-> FALSE, research_plan |-> NonePlan]

FinalPlans ==
    {[present |-> TRUE, research_plan |-> p] :
        p \in {NonePlan, Plan(AbsentDirective, 2, AbsentDirective, 1)}}

\* State (schemas.py:284-322)
EmptyState ==
    [estimated_budget |-> FALSE,
     research_plan |-> NonePlan,
     cands |-> [c \in Cats |-> NoneWrapper],
     recommendations |-> FALSE,
     final_plan |-> NoFinalPlan]

\* ------------------------------------------------------------------------
\* Serialisation (pydantic model_dump / model construction)
\* ------------------------------------------------------------------------
CandFields == {"id", "name", "url", "address"}

\* item.model_dump(exclude_none=True): the set of (field, value) pairs whose
\* value is not None (workflow_service.py:241, 262)
model_dump_exclude_none(item) == {<<f, item[f]>> : f \in {g \in CandFields : item[g] # 0}}

\* CandidateLodging(**d): absent keys take their default None
\* (nodes.py:533, 542, 551, 560)
FieldOf(d, f) == IF \E p \in d : p[1] = f THEN (CHOOSE p \in d : p[1] = f)[2] ELSE 0

model_construct(d) == [f \in CandFields |-> FieldOf(d, f)]

\* research_plan.model_dump(exclude_none=True) (workflow_service.py:211):
\* the named categories with their directive dumps; a blank directive dumps
\* to the empty dict
plan_dump_exclude_none(plan) == {<<c, plan.dirs[c]>> : c \in Named(plan)}

\* nodes.py:511-525: an empty dict is falsy; categories whose directive dump
\* is empty are skipped
plan_from_resume(given, dump) ==
    IF given /\ dump # {}
    THEN [present |-> TRUE,
          dirs |-> [c \in Cats |->
                      IF \E p \in dump : p[1] = c /\ p[2] # BlankDirective
                      THEN (CHOOSE p \in dump : p[1] = c)[2]
                      ELSE AbsentDirective]]
    ELSE NonePlan

\* ------------------------------------------------------------------------
\* Graph wiring (src/core/graph_builder.py)
\* ------------------------------------------------------------------------
NodeOf(cat) ==
    CASE cat = "lodging" -> "research_lodging"
      [] cat = "activities" -> "research_activities"
      [] cat = "food" -> "research_food"
      [] cat = "intercity_transport" -> "research_intercity_transport"

CatNodes == {NodeOf(c) : c \in Cats}

ResearchNodes == CatNodes \cup {"research_recommendations"}

\* nodes.py:568-589
route_from_human_response_all(st) ==
    IF ~st.research_plan.present THEN {"planner"}
    ELSE IF Named(st.research_plan) = {} THEN {"planner"}
    ELSE {NodeOf(c) : c \in Cats}

route_from_human_response(st) ==
    IF ~st.research_plan.present THEN {"planner"}
    ELSE IF Named(st.research_plan) = {} THEN {"planner"}
    ELSE {NodeOf(c) : c \in Named(st.research_plan)}

\* graph_builder.py:42-61: the nodes an edge leads to from node n
Successors_followup(n, st) ==
    CASE n = "budget_estimate" -> {"research_plan"}
      [] n = "research_plan" -> ResearchNodes
      [] n \in ResearchNodes -> {"combined_human_review"}
      [] n = "combined_human_review" -> route_from_human_response(st)
      [] n = "planner" -> {NodeOf(c) : c \in Named(st.final_plan.research_plan)}

Successors(n, st) ==
    CASE n = "budget_estimate" -> {"research_plan"}
      [] n = "research_plan" -> ResearchNodes
      [] n \in ResearchNodes -> {"combined_human_review"}
      [] n = "combined_human_review" -> route_from_human_response(st)
      [] n = "planner" -> {}

\* ------------------------------------------------------------------------
\* combined_human_review (src/core/nodes.py:456-565,
\* src/workflows/planner.py:327-439)
\* ------------------------------------------------------------------------
\* item.model_dump(): every field, None included (nodes.py:468-489)
model_dump(item) == {<<f, item[f]>> : f \in CandFields}

SeqMap(Op(_), s) == [k \in 1..Len(s) |-> Op(s[k])]

\* nodes.py:462-490: one entry per category whose wrapper holds a non-empty
\* list; a category without entry has the empty option list here
interrupts_needed(st) ==
    [c \in Cats |->
        IF st.cands[c].present /\ st.cands[c].items # <<>>
        THEN SeqMap(model_dump, st.cands[c].items)
        ELSE <<>>]

NoInterrupt ==
    [present |-> FALSE, selections |-> [c \in Cats |-> <<>>], research_plan |-> NonePlan]

\* nodes.py:499-503: the value handed to interrupt()
InterruptValue(st) ==
    [present |-> TRUE, selections |-> interrupts_needed(st), research_plan |-> st.research_plan]

\* planner.py:363-364: the workflows draft returns {} when nothing is to be
\* chosen; nodes.py has no such return and always reaches interrupt()
ReviewIsNoOp(d, st) ==
    d = "workflows" /\ \A c \in Cats : interrupts_needed(st)[c] = <<>>

\* the resume payload: per category whether the key is there and the dumps
\* under it, and the research_plan dump
NoPayload ==
    [research_plan |-> [given |-> FALSE, dump |-> {}],
     sel |-> [c \in Cats |-> [given |-> FALSE, dumps |-> <<>>]]]

\* an update of the state: which fields a node returns and their values;
\* errors are the categories whose update carries the message of a caught
\* exception (nodes.py:133).  The messages field of the state is read by no
\* node and is not kept beyond the update
NoWrites ==
    [estimated_budget |-> FALSE,
     plan_written |-> FALSE,
     research_plan |-> NonePlan,
     cands |-> [c \in Cats |-> NoneWrapper],
     recommendations |-> FALSE,
     final_plan |-> NoFinalPlan,
     errors |-> {}]

\* nodes.py:505-563: the update built from the resume value
ReviewUpdate_keepplan(result) ==
    [NoWrites EXCEPT
        !.cands = [c \in Cats |->
                     IF result.sel[c].given /\ result.sel[c].dumps # <<>>
                     THEN Wrapper(SeqMap(model_construct, result.sel[c].dumps))
                     ELSE NoneWrapper]]

ReviewUpdate_emptyclears(result) ==
    [NoWrites EXCEPT
        !.plan_written = TRUE,
        !.research_plan = plan_from_resume(result.research_plan.given, result.research_plan.dump),
        !.cands = [c \in Cats |->
                     IF result.sel[c].given
                     THEN Wrapper(SeqMap(model_construct, result.sel[c].dumps))
                     ELSE NoneWrapper]]

ReviewUpdate(result) ==
    [NoWrites EXCEPT
        !.plan_written = TRUE,
        !.research_plan = plan_from_resume(result.research_plan.given, result.research_plan.dump),
        !.cands = [c \in Cats |->
                     IF result.sel[c].given /\ result.sel[c].dumps # <<>>
                     THEN Wrapper(SeqMap(model_construct, result.sel[c].dumps))
                     ELSE NoneWrapper]]

\* ------------------------------------------------------------------------
\* State channels: how an update is folded into the state
\* (schemas.py:310-320 with reducer, domain.py:242-251 without)
\* ------------------------------------------------------------------------
MergeField_overwrite(d, existing, new) == new

MergeField(d, existing, new) ==
    IF d = "core" THEN reducer(existing, new)
    ELSE IF new.present THEN new ELSE existing

ApplyWrites(d, st, w) ==
    [estimated_budget |-> st.estimated_budget \/ w.estimated_budget,
     research_plan |-> IF w.plan_written THEN w.research_plan ELSE st.research_plan,
     cands |-> [c \in Cats |-> MergeField(d, st.cands[c], w.cands[c])],
     recommendations |-> st.recommendations \/ w.recommendations,
     final_plan |-> IF w.final_plan.present THEN w.final_plan ELSE st.final_plan]

\* the updates of the nodes of one superstep write disjoint fields
JoinWrites(w1, w2) ==
    [estimated_budget |-> w1.estimated_budget \/ w2.estimated_budget,
     plan_written |-> w1.plan_written \/ w2.plan_written,
     research_plan |-> IF w2.plan_written THEN w2.research_plan ELSE w1.research_plan,
     cands |-> [c \in Cats |-> IF w2.cands[c].present THEN w2.cands[c] ELSE w1.cands[c]],
     recommendations |-> w1.recommendations \/ w2.recommendations,
     final_plan |-> IF w2.final_plan.present THEN w2.final_plan ELSE w1.final_plan,
     errors |-> w1.errors \cup w2.errors]

\* ------------------------------------------------------------------------
\* Session manager helpers (src/api/workflow_service.py)
\* ------------------------------------------------------------------------
\* what graph.ainvoke returns: the state values and the interrupt, if any
NoResult == [present |-> FALSE, values |-> EmptyState, interrupt |-> NoInterrupt]

Result(st, intr) == [present |-> TRUE, values |-> st, interrupt |-> intr]

\* response_builder.py:32-40.  A FinalPlan and a ResearchPlan are objects
\* without __bool__ or __len__: every one that is not None is truthy
determine_status(result) ==
    IF result.interrupt.present THEN "interrupt"
    ELSE IF result.values.final_plan.present
            /\ result.values.final_plan.research_plan.present THEN "needs_follow_up"
    ELSE IF result.values.final_plan.present THEN "complete"
    ELSE "no_plan"

\* workflow_service.py:213-224
resolve_options(d, state, key) ==
    IF ~state.cands[key].present THEN <<>>
    ELSE IF ListField(d, key) = key THEN state.cands[key].items
    ELSE <<>>

\* workflow_service.py:238, 258
IndexInRange(idx, n) == ~(idx < 0 \/ idx >= n)

\* a selection: given = FALSE is None; a single-choice index is a
\* one-element idxs
NoSelection == [given |-> FALSE, idxs |-> <<>>]

Index(i) == [given |-> TRUE, idxs |-> <<i>>]

Indices(s) == [given |-> TRUE, idxs |-> s]

\* workflow_service.py:232-241, 249-263: the error raised for one category,
\* "none" when the category passes.  "IndexError" is Python's own error on
\* options[idx] past the end
SelectionError(options, sel) ==
    IF ~sel.given THEN "none"
    ELSE IF options = <<>> THEN "RuntimeError"
    ELSE IF \E k \in 1..Len(sel.idxs) : ~IndexInRange(sel.idxs[k], Len(options))
         THEN "RuntimeError"
    ELSE IF \E k \in 1..Len(sel.idxs) : sel.idxs[k] >= Len(options) THEN "IndexError"
    ELSE "none"

\* workflow_service.py:241, 255-263
SelectedDumps(options, sel) ==
    IF sel.given
    THEN [k \in 1..Len(sel.idxs) |-> model_dump_exclude_none(options[sel.idxs[k] + 1])]
    ELSE <<>>

\* the categories in the order the code validates them
\* (workflow_service.py:227-230, 244-247)
CatOrder == <<"lodging", "intercity_transport", "activities", "food">>

\* workflow_service.py:190-265: the first error met, or "none"
PayloadError(d, state, selections) ==
    LET errs == [k \in 1..4 |->
                   SelectionError(resolve_options(d, state, CatOrder[k]), selections[CatOrder[k]])]
    IN  IF \A k \in 1..4 : errs[k] = "none" THEN "none"
        ELSE errs[CHOOSE k \in 1..4 : errs[k] # "none" /\ \A j \in 1..(k - 1) : errs[j] = "none"]

\* workflow_service.py:190-265: the payload when no error is raised
build_resume_payload(d, state, selections, research_plan) ==
    [research_plan |-> [given |-> research_plan.present,
                        dump |-> plan_dump_exclude_none(research_plan)],
     sel |-> [c \in Cats |->
                [given |-> selections[c].given,
                 dumps |-> SelectedDumps(resolve_options(d, state, c), selections[c])]]]

\* ------------------------------------------------------------------------
\* State
\* ------------------------------------------------------------------------
\* bound on the research passes of one session (first fan-out included)
MaxPasses == 2

\* uuid4 values plan_trip can draw, and ids no session was ever given
SessionIds == {"t1", "t2"}

\* the pool of the specifications that follow one session
OneSession == {"t1"}
ForgedIds == {"t9"}
ThreadIds == SessionIds \cup ForgedIds

NoThread == "none"

NoCtx == "none"

\* the TripContext of plan_trip
PlanContexts == {"ctx1"}

\* ResumeSelections (app.py:75-91)
Sel(l, a, f, t) ==
    [c \in Cats |-> CASE c = "lodging" -> l [] c = "activities" -> a
                      [] c = "food" -> f [] c = "intercity_transport" -> t]

NoSelections == Sel(NoSelection, NoSelection, NoSelection, NoSelection)

\* a full selection: one lodging, one transport, activities a, the first food
FullSel(i, a) == Sel(Index(i), Indices(a), Indices(<<0>>), Index(i))

Request(context, selections, plan) ==
    [context |-> context, selections |-> selections, plan |-> plan]

LodgingAgain == Plan(2, AbsentDirective, AbsentDirective, AbsentDirective)

\* a research plan whose lodging directive asks for no candidates
LodgingZero == Plan(0, AbsentDirective, AbsentDirective, AbsentDirective)

\* the requests callers send to resume_trip: context, selections and
\* research_plan override
Requests ==
    {Request(NoCtx, Sel(Index(i), NoSelection, NoSelection, NoSelection), NonePlan) :
        i \in {-1, 0, 1, 2}}
    \cup {Request(NoCtx, Sel(NoSelection, NoSelection, NoSelection, Index(j)), NonePlan) :
             j \in {0, 2}}
    \cup {Request(NoCtx, Sel(NoSelection, Indices(a), NoSelection, NoSelection), NonePlan) :
             a \in {<<>>, <<2>>}}
    \cup {Request(NoCtx, FullSel(i, a), NonePlan) :
             i \in {0, 1}, a \in {<<1, 0>>, <<0, 0>>, <<0, 0, 0>>}}
    \cup {Request(NoCtx, NoSelections, plan) :
             plan \in {NonePlan, LodgingAgain,
                       Plan(BlankDirective, AbsentDirective, AbsentDirective, AbsentDirective),
                       Plan(AbsentDirective, 2, AbsentDirective, 1)}}
    \cup {Request("ctx2", Sel(Index(2), NoSelection, NoSelection, NoSelection), NonePlan),
          Request("ctx2", NoSelections, NonePlan),
          Request(NoCtx, FullSel(0, <<1, 0>>), LodgingAgain),
          Request(NoCtx, NoSelections, LodgingZero)}

\* the directive a FinalPlan can carry as its follow-up plan
FollowUp == Plan(AbsentDirective, 2, AbsentDirective, 1)

\* the requests callers send to a session whose run has finished: extra
\* research with the follow-up directive, and a resume with a new context
FinishedRequests ==
    {Request(NoCtx, NoSelections, FollowUp),
     Request("ctx2", NoSelections, NonePlan)}

CallKeys == ThreadIds \cup {NoThread}

NoCall == [op |-> "none", error |-> "none", invoked |-> FALSE,
           context |-> NoCtx, sel |-> NoSelections, override |-> FALSE,
           plan |-> NonePlan]

NoResume == [present |-> FALSE, value |-> NoPayload]

VARIABLES
    draft,              \* which graph draft the bundle was built from
    pool,               \* the uuid4 values plan_trip can still draw or has drawn
    contexts,           \* WorkflowBundle._contexts
    configs,            \* WorkflowBundle._configs (the thread id of the stored config)
    pendingStates,      \* WorkflowBundle._pending_states
    pendingInterrupts,  \* WorkflowBundle._pending_interrupts
    issued,             \* thread ids returned to callers
    call,               \* per token: "idle", the call awaiting graph.ainvoke, or "error"
    lastCall,           \* per token: the call being served: operation, inputs, error raised
    execContext,        \* per thread: the context handed to graph.ainvoke
    ckpt,               \* checkpointer: the state values per thread
    run,                \* per thread: "none", "running", "interrupted", "done", "failed"
    active,             \* per thread: nodes of the current superstep
    finished,           \* per thread: nodes of the superstep that have returned
    writes,             \* per thread: updates returned in the superstep
    resumeValue,        \* per thread: the Command(resume=...) value not yet consumed
    passes,             \* per thread: research passes started
    passSched,          \* per thread: research nodes scheduled in the current pass
    passDone,           \* per thread: research nodes of the pass that have returned
    completed,          \* per thread: nodes that have returned at least once
    prePass,            \* per thread: candidate fields when the current pass was scheduled
    routedFrom,         \* per thread: the nodes whose edges scheduled the current superstep
    rExisting,          \* reducer specification: the existing wrapper
    rNew,               \* reducer specification: the incoming wrapper
    rResult,            \* reducer specification: the value returned
    rDone,              \* reducer specification: reducer has been applied
    sResult,            \* status specification: the result handed to _determine_status
    sStatus,            \* status specification: the status returned
    sDone,              \* status specification: _determine_status has been applied
    geoLocation,        \* geocoding specification: the location looked up
    geoLookup,          \* geocoding specification: what the HTTP request comes back with
    geoLlm,             \* geocoding specification: what the structured LLM call comes back with
    geoStage,           \* geocoding specification: "idle", "start", "looked_up" or "done"
    geoOutcome,         \* geocoding specification: how get_coordinates_nominatim ended
    geoNode,            \* geocoding specification: how the research_plan node ended
    ragIndex,           \* rag specification: FAISS.index_to_docstore_id, by position
    ragDocstore,        \* rag specification: the ids of InMemoryDocstore
    ragVectors,         \* rag specification: the number of vectors in the FAISS index
    ragCalls            \* rag specification: the add_unique_documents calls

\* the variables of the specifications of the pure functions
pvars == <<rExisting, rNew, rResult, rDone, sResult, sStatus, sDone>>

geovars == <<geoLocation, geoLookup, geoLlm, geoStage, geoOutcome, geoNode>>

ragvars == <<ragIndex, ragDocstore, ragVectors, ragCalls>>

svars == <<geovars, ragvars>>

rvars == <<pvars, svars>>

mvars == <<contexts, configs, pendingStates, pendingInterrupts, issued, call, lastCall,
           execContext>>

gvars == <<ckpt, run, active, finished, writes, resumeValue, passes,
           passSched, passDone, completed, prePass, routedFrom>>

vars == <<draft, pool, mvars, gvars, rvars>>

\* ---------------------------------------------------------------------
\* The geocoding helper (services/geocoding/geocoding.py)

\* the longest result list a lookup comes back with
MaxResults == 2

Locations == {"", "Tokyo, Japan"}

\* a key the JSON object of a result does not have
Missing == "missing"

CoordValues == {"35.6895", "139.6917"}

\* one result of the search: its "lat" and "lon" members
GeoItems == [lat : CoordValues \cup {Missing}, lon : CoordValues \cup {Missing}]

\* the body of the HTTP response: text that is not JSON, a JSON object
\* (empty, or with members such as "error"), or a JSON list of results
Body(kind, items) == [kind |-> kind, items |-> items]

Bodies ==
    {Body("invalid_json", <<>>), Body("empty_object", <<>>), Body("object", <<>>)}
    \cup {Body("list", items) : items \in SeqsUpTo(GeoItems, MaxResults)}

\* what client.get comes back with: a transport failure, or a response
\* with a status class and a body
Lookup(transport, status, body) ==
    [transport |-> transport, status |-> status, body |-> body]

Lookups ==
    {Lookup(tr, st, b) : tr \in {"ok", "network_error"},
                         st \in {"ok", "client_error", "server_error"},
                         b \in Bodies}

NoLookup == Lookup("ok", "ok", Body("list", <<>>))

\* an Optional[str]: <<>> is None, else the text f"{lat},{lon}"
NoCoordinates == <<>>

FormatCoordinates(lat, lon) == <<lat, ",", lon>>

\* how a call ended: with a return value or with an exception
Returned(value) == [raised |-> FALSE, value |-> value]

Raised == [raised |-> TRUE, value |-> NoCoordinates]

NoOutcome == Returned(NoCoordinates)

\* geocoding.py:22-31: client.get, raise_for_status and response.json()
\* are inside the try block, whose handler returns None
LookupFails(lookup) ==
    \/ lookup.transport # "ok"
    \/ lookup.status # "ok"
    \/ lookup.body.kind = "invalid_json"

\* geocoding.py:11-37
get_coordinates_nominatim(location, lookup) ==
    IF location = "" THEN Returned(NoCoordinates)
    ELSE IF LookupFails(lookup) THEN Returned(NoCoordinates)
    ELSE LET data == lookup.body
         IN IF data.kind = "empty_object" \/ (data.kind = "list" /\ data.items = <<>>)
            THEN Returned(NoCoordinates)
            ELSE IF data.kind = "object"
            THEN Raised     \* data[0] on a dict: KeyError
            ELSE LET first == data.items[1]
                 IN IF first.lat = Missing \/ first.lon = Missing
                    THEN Raised     \* first['lat'], first['lon']: KeyError
                    ELSE Returned(FormatCoordinates(first.lat, first.lon))

\* the structured LLM call of research_plan (nodes.py:212): a plan or an
\* exception
LlmOutcome(raised, plan) == [raised |-> raised, plan |-> plan]

LlmOutcomes ==
    {LlmOutcome(TRUE, NonePlan)} \cup {LlmOutcome(FALSE, p) : p \in PlanChoices}

\* what the research_plan node ends with: an exception, or the update
\* (nodes.py:220-229)
NodeRaised == [raised |-> TRUE, research_plan |-> NonePlan,
               destination_coordinates |-> NoCoordinates]

NodeUpdate(plan, coordinates) ==
    [raised |-> FALSE, research_plan |-> plan, destination_coordinates |-> coordinates]

GeocodingIdle ==
    /\ geoLocation = ""
    /\ geoLookup = NoLookup
    /\ geoLlm = LlmOutcome(FALSE, EmptyPlan)
    /\ geoStage = "idle"
    /\ geoOutcome = NoOutcome
    /\ geoNode = NodeRaised

\* ---------------------------------------------------------------------
\* The retrieval pipeline (pipelines/rag.py)

\* the number of add_unique_documents calls and the length of a batch
MaxCalls == 3
MaxDocs == 2

CallIds == 1..MaxCalls

\* page_content of the documents
Contents == {"alpha", "beta"}

DocBatches == SeqsUpTo(Contents, MaxDocs)

\* rag.py:119: the hex digest of the content; distinct contents have
\* distinct digests
sha256(content) == <<"sha256", content>>

\* rag.py:120 (negated): the id is among index_to_docstore_id.values()
IsStored_never(doc_id, index) == FALSE

IsStored(doc_id, index) == doc_id \in Range(index)

\* rag.py:117-121: the insertion-ordered keys of unique_texts
RECURSIVE unique_texts(_, _, _)
unique_texts(docs, index, texts) ==
    IF docs = <<>>
    THEN texts
    ELSE LET content == Head(docs)
             keep == ~IsStored(sha256(content), index) /\ content \notin Range(texts)
         IN unique_texts(Tail(docs), index, IF keep THEN Append(texts, content) ELSE texts)

\* one call of add_unique_documents: "idle" before it starts, "embedding"
\* while aadd_texts awaits the embeddings, then "returned" or "raised".
\* docs and texts are its locals; of a call that went through aadd_texts
\* only the result or the exception is left
RagCall(stage, docs, texts, result) ==
    [stage |-> stage, docs |-> docs, texts |-> texts, result |-> result]

NoRagCall == RagCall("idle", <<>>, <<>>, <<>>)

RagIdle ==
    /\ ragIndex = <<>>
    /\ ragDocstore = {}
    /\ ragVectors = 0
    /\ ragCalls = [k \in CallIds |-> NoRagCall]

\* With two sessions in the pool every input set is narrowed to a few
\* values, so that the interleavings of the two runs stay within reach:
\* one response per agent, one plan, one FinalPlan, three requests
Narrowed(full, narrow) == IF Cardinality(pool) > 1 THEN narrow ELSE full

NarrowResponses(cat) ==
    {Response(Wrapper(IF cat = "lodging" THEN <<cA, cB>> ELSE <<cA>>), NoneWrapper)}

NarrowRequests ==
    {Request(NoCtx, Sel(Index(0), NoSelection, NoSelection, NoSelection), NonePlan),
     Request("ctx2", Sel(Index(2), NoSelection, NoSelection, NoSelection), NonePlan),
     Request(NoCtx, NoSelections, LodgingAgain)}

\* ------------------------------------------------------------------------
\* Reducer specification: the inputs are drawn in the initial state and the
\* single action applies reducer to them.
\* ------------------------------------------------------------------------
InitWorkflow(d) ==
    /\ draft = d
    /\ contexts = [t \in ThreadIds |-> NoCtx]
    /\ configs = [t \in ThreadIds |-> NoThread]
    /\ pendingStates = [t \in ThreadIds |-> NoResult]
    /\ pendingInterrupts = [t \in ThreadIds |-> NoInterrupt]
    /\ issued = {}
    /\ call = [k \in CallKeys |-> "idle"]
    /\ execContext = [t \in ThreadIds |-> NoCtx]
    /\ lastCall = [k \in CallKeys |-> NoCall]
    /\ ckpt = [t \in ThreadIds |-> EmptyState]
    /\ run = [t \in ThreadIds |-> "none"]
    /\ active = [t \in ThreadIds |-> {}]
    /\ finished = [t \in ThreadIds |-> {}]
    /\ writes = [t \in ThreadIds |-> NoWrites]
    /\ resumeValue = [t \in ThreadIds |-> NoResume]
    /\ passes = [t \in ThreadIds |-> 0]
    /\ passSched = [t \in ThreadIds |-> {}]
    /\ passDone = [t \in ThreadIds |-> {}]
    /\ completed = [t \in ThreadIds |-> {}]
    /\ prePass = [t \in ThreadIds |-> [c \in Cats |-> NoneWrapper]]
    /\ routedFrom = [t \in ThreadIds |-> {}]

\* ------------------------------------------------------------------------
\* Session manager and graph actions
\* ------------------------------------------------------------------------
\* workflow_service.py:179-188
store_result_shared(t, result) ==
    /\ pendingStates' = [k \in ThreadIds |-> IF k \in issued \cup {t} THEN result
                                              ELSE pendingStates[k]]
    /\ pendingInterrupts' =
          [pendingInterrupts EXCEPT
              ![t] = IF result.interrupt.present THEN result.interrupt ELSE NoInterrupt]

store_result(t, result) ==
    /\ pendingStates' = [pendingStates EXCEPT ![t] = result]
    /\ pendingInterrupts' =
          [pendingInterrupts EXCEPT
              ![t] = IF result.interrupt.present THEN result.interrupt ELSE NoInterrupt]

\* graph.ainvoke returns result to the awaiting call, which stores it and
\* hands the config back (workflow_service.py:313-314, 383-385)
ReturnResult(t, result) ==
    /\ store_result(t, result)
    /\ issued' = issued \cup {t}
    /\ call' = [call EXCEPT ![t] = "idle"]
    /\ lastCall' = [lastCall EXCEPT ![t] = NoCall]
    /\ UNCHANGED execContext

\* an exception leaves graph.ainvoke and the awaiting call
\* (nodes.py:161-163, 215-217, 440-442); nothing is stored
Fatal_returns(t) ==
    /\ run' = [run EXCEPT ![t] = "failed"]
    /\ ReturnResult(t, Result(ckpt[t], NoInterrupt))
    /\ UNCHANGED <<contexts, configs, ckpt, active, finished, writes, passes,
                   passSched, passDone, completed, prePass, routedFrom>>

Fatal(t) ==
    /\ run' = [run EXCEPT ![t] = "failed"]
    /\ call' = [call EXCEPT ![t] = "error"]
    /\ lastCall' = [lastCall EXCEPT ![t] = [@ EXCEPT !.error = "fatal", !.sel = NoSelections]]
    /\ UNCHANGED <<contexts, configs, pendingStates, pendingInterrupts, issued, execContext,
                   ckpt, active, finished, writes, passes,
                   passSched, passDone, completed, prePass, routedFrom>>

Runnable(t, n) == run[t] = "running" /\ n \in active[t] \ finished[t]

\* node n returns update w
Returns(t, n, w) ==
    /\ finished' = [finished EXCEPT ![t] = @ \cup {n}]
    /\ writes' = [writes EXCEPT ![t] = JoinWrites(@, w)]
    /\ completed' = [completed EXCEPT ![t] = @ \cup {n}]
    /\ passDone' = [passDone EXCEPT ![t] = IF n \in ResearchNodes THEN @ \cup {n} ELSE @]
    /\ UNCHANGED <<mvars, ckpt, run, active, passes, passSched, prePass, routedFrom>>

\* workflow_service.py:270-314
plan_trip(t, context) ==
    /\ t \in pool
    /\ contexts[t] = NoCtx
    /\ run[t] = "none"
    /\ call[t] = "idle"
    /\ contexts' = [contexts EXCEPT ![t] = context]
    /\ configs' = [configs EXCEPT ![t] = t]
    /\ pendingStates' = [pendingStates EXCEPT ![t] = NoResult]
    /\ pendingInterrupts' = [pendingInterrupts EXCEPT ![t] = NoInterrupt]
    /\ call' = [call EXCEPT ![t] = "plan_trip"]
    /\ execContext' = [execContext EXCEPT ![t] = context]
    /\ lastCall' = [lastCall EXCEPT ![t] = [NoCall EXCEPT !.op = "plan_trip", !.invoked = TRUE]]
    /\ ckpt' = [ckpt EXCEPT ![t] = EmptyState]
    /\ run' = [run EXCEPT ![t] = "running"]
    /\ active' = [active EXCEPT ![t] = {"budget_estimate"}]
    /\ finished' = [finished EXCEPT ![t] = {}]
    /\ writes' = [writes EXCEPT ![t] = NoWrites]
    /\ UNCHANGED <<issued, resumeValue, passes, passSched, passDone, completed,
                   prePass, routedFrom>>
    /\ UNCHANGED <<draft, pool, rvars>>

\* nodes.py:136-175
budget_estimate(t) ==
    /\ Runnable(t, "budget_estimate")
    /\ \/ Returns(t, "budget_estimate", [NoWrites EXCEPT !.estimated_budget = TRUE])
       \/ Fatal(t)
    /\ UNCHANGED <<draft, pool, resumeValue, rvars>>

\* nodes.py:178-231
research_plan(t) ==
    /\ Runnable(t, "research_plan")
    /\ \/ \E plan \in Narrowed(PlanChoices, {EmptyPlan}) :
             Returns(t, "research_plan",
                     [NoWrites EXCEPT !.plan_written = TRUE, !.research_plan = plan])
       \/ Fatal(t)
    /\ UNCHANGED <<draft, pool, resumeValue, rvars>>

\* nodes.py:82-133 with 234-363 (core): an exception of the agent is caught
\* and the typed empty default returned; planner.py:175-273 (workflows): the
\* exception leaves the node
CatchesAgentError_never(d) == FALSE

CatchesAgentError(d) == d = "core"

research_category(t, cat) ==
    /\ Runnable(t, NodeOf(cat))
    /\ \/ \E response \in Narrowed(AgentResponses(cat), NarrowResponses(cat)) :
             Returns(t, NodeOf(cat),
                     [NoWrites EXCEPT
                         !.cands[cat] = extract_agent_output(draft, response, Wrapper(<<>>))])
       \/ IF CatchesAgentError(draft)
          THEN Returns(t, NodeOf(cat), [NoWrites EXCEPT !.cands[cat] = Wrapper(<<>>),
                                                        !.errors = {cat}])
          ELSE Fatal(t)
    /\ UNCHANGED <<draft, pool, resumeValue, rvars>>

\* nodes.py:366-390, planner.py:276-293
research_recommendations(t) ==
    /\ Runnable(t, "research_recommendations")
    /\ \/ Returns(t, "research_recommendations", [NoWrites EXCEPT !.recommendations = TRUE])
       \/ IF CatchesAgentError(draft)
          THEN Returns(t, "research_recommendations", [NoWrites EXCEPT !.recommendations = TRUE])
          ELSE Fatal(t)
    /\ UNCHANGED <<draft, pool, resumeValue, rvars>>

\* nodes.py:456-565, planner.py:327-439
combined_human_review(t) ==
    /\ Runnable(t, "combined_human_review")
    /\ IF resumeValue[t].present
       THEN \* interrupt() returns the resume value (nodes.py:505-563)
            /\ Returns(t, "combined_human_review", ReviewUpdate(resumeValue[t].value))
            /\ resumeValue' = [resumeValue EXCEPT ![t] = NoResume]
       ELSE IF ReviewIsNoOp(draft, ckpt[t])
       THEN \* planner.py:363-364
            /\ Returns(t, "combined_human_review", NoWrites)
            /\ UNCHANGED resumeValue
       ELSE \* interrupt() suspends the run (nodes.py:499-503)
            /\ run' = [run EXCEPT ![t] = "interrupted"]
            /\ ReturnResult(t, Result(ckpt[t], InterruptValue(ckpt[t])))
            /\ UNCHANGED <<contexts, configs, ckpt, active, finished, writes, resumeValue,
                           passes, passSched, passDone, completed, prePass, routedFrom>>
    /\ UNCHANGED <<draft, pool, rvars>>

\* nodes.py:393-453
planner_suspends(t) ==
    /\ Runnable(t, "planner")
    /\ run' = [run EXCEPT ![t] = "interrupted"]
    /\ ReturnResult(t, Result(ckpt[t], InterruptValue(ckpt[t])))
    /\ UNCHANGED <<contexts, configs, ckpt, active, finished, writes, resumeValue,
                   passes, passSched, passDone, completed, prePass, routedFrom>>
    /\ UNCHANGED <<draft, pool, rvars>>

planner(t) ==
    /\ Runnable(t, "planner")
    /\ \/ \E fp \in Narrowed(FinalPlans, {[present |-> TRUE, research_plan |-> NonePlan]}) :
             Returns(t, "planner", [NoWrites EXCEPT !.final_plan = fp])
       \/ Fatal(t)
    /\ UNCHANGED <<draft, pool, resumeValue, rvars>>

\* graph_builder.py:42-63: the compiled graph runs in supersteps; the nodes
\* an edge leads to start once every node of the current step has returned
BarrierReached_any(t) == finished[t] # {}

BarrierReached(t) == finished[t] = active[t]

superstep(t) ==
    /\ run[t] = "running"
    /\ BarrierReached(t)
    /\ LET st == ApplyWrites(draft, ckpt[t], writes[t])
           next == UNION {Successors(n, st) : n \in finished[t]}
           isPass == next \cap ResearchNodes # {}
       IN  /\ isPass => passes[t] < MaxPasses
           /\ ckpt' = [ckpt EXCEPT ![t] = st]
           /\ active' = [active EXCEPT ![t] = next]
           /\ finished' = [finished EXCEPT ![t] = {}]
           /\ writes' = [writes EXCEPT ![t] = NoWrites]
           /\ routedFrom' = [routedFrom EXCEPT ![t] = finished[t]]
           /\ passes' = [passes EXCEPT ![t] = IF isPass THEN @ + 1 ELSE @]
           /\ passSched' = [passSched EXCEPT ![t] = IF isPass THEN next ELSE @]
           /\ passDone' = [passDone EXCEPT ![t] = IF isPass THEN {} ELSE @]
           /\ prePass' = [prePass EXCEPT ![t] = IF isPass THEN st.cands ELSE @]
           /\ IF next = {}
              THEN \* no node is left: graph.ainvoke returns the state values
                   /\ run' = [run EXCEPT ![t] = "done"]
                   /\ ReturnResult(t, Result(st, NoInterrupt))
                   /\ UNCHANGED <<contexts, configs, resumeValue>>
              ELSE /\ lastCall' = [lastCall EXCEPT
                                      ![t] = IF isPass THEN [@ EXCEPT !.sel = NoSelections] ELSE @]
                   /\ UNCHANGED <<run, contexts, configs, pendingStates, pendingInterrupts,
                                  issued, call, execContext, resumeValue>>
    /\ UNCHANGED <<draft, pool, completed, rvars>>

\* workflow_service.py:316-385.  tok is configurable.thread_id of the config
\* sent (NoThread when the key is missing)
ThreadUnknown_never(tok) == FALSE

ThreadUnknown(tok) == contexts[tok] = NoCtx

\* workflow_service.py:359-360
ExecutionContext(stored, context) == IF context # NoCtx THEN context ELSE stored

\* workflow_service.py:365-366
StoredContext_always(stored, context) == context

StoredContext(stored, context) == IF context # NoCtx THEN context ELSE stored

resume_trip(tok) ==
    /\ tok \in issued \cup ForgedIds \cup {NoThread}
    /\ call[tok] = "idle"
    /\ IF tok = NoThread \/ ThreadUnknown(tok)
       THEN \* workflow_service.py:353-357: raised before any input is read
            /\ lastCall' = [lastCall EXCEPT
                              ![tok] = [NoCall EXCEPT !.op = "resume_trip",
                                                      !.error = "RuntimeError"]]
            /\ call' = [call EXCEPT ![tok] = "error"]
            /\ UNCHANGED <<contexts, configs, pendingStates, pendingInterrupts, issued,
                           execContext, gvars>>
       ELSE \E req \in IF run[tok] = "done" THEN FinishedRequests
                        ELSE Narrowed(Requests, NarrowRequests) :
            LET context == req.context
                selections == req.selections
                plan == req.plan
                thisCall == [NoCall EXCEPT !.op = "resume_trip", !.context = context,
                                           !.sel = selections, !.override = plan.present,
                                           !.plan = plan]
                state == pendingStates[tok]
                err == IF state.present
                       THEN PayloadError(draft, state.values, selections)
                       ELSE "none"
                payload == IF state.present
                           THEN build_resume_payload(draft, state.values, selections, plan)
                           ELSE [NoPayload EXCEPT
                                   !.research_plan =
                                       [given |-> plan.present,
                                        dump |-> plan_dump_exclude_none(plan)]]
            IN
            \* workflow_service.py:359-369
            /\ contexts' = [contexts EXCEPT ![tok] = StoredContext(@, context)]
            /\ configs' = [configs EXCEPT ![tok] = tok]
            /\ IF err # "none"
               THEN \* workflow_service.py:237, 239, 254, 259
                    /\ lastCall' = [lastCall EXCEPT ![tok] = [thisCall EXCEPT !.error = err]]
                    /\ call' = [call EXCEPT ![tok] = "error"]
                    /\ UNCHANGED <<pendingStates, pendingInterrupts, issued, execContext, gvars>>
               ELSE \* workflow_service.py:377-385
                    /\ run[tok] \in {"none", "interrupted", "done"}
                    /\ run[tok] = "interrupted"
                          /\ Named(plan_from_resume(payload.research_plan.given,
                                                    payload.research_plan.dump)) # {}
                          => passes[tok] < MaxPasses
                    /\ execContext' = [execContext EXCEPT
                                         ![tok] = ExecutionContext(contexts[tok], context)]
                    \* graph.ainvoke(Command(resume=payload)): the run goes on from
                    \* the checkpoint.  A suspended run has combined_human_review
                    \* pending, whose interrupt() takes the value; a finished run
                    \* has no node pending and nothing reads the value
                    /\ resumeValue' = [resumeValue EXCEPT
                                         ![tok] = IF run[tok] = "interrupted"
                                                  THEN [present |-> TRUE, value |-> payload]
                                                  ELSE NoResume]
                    /\ run' = [run EXCEPT ![tok] = "running"]
                    /\ call' = [call EXCEPT ![tok] = "resume_trip"]
                    /\ lastCall' = [lastCall EXCEPT
                                      ![tok] = [thisCall EXCEPT
                                                  !.invoked = TRUE,
                                                  !.sel = IF run[tok] = "interrupted"
                                                          THEN @ ELSE NoSelections]]
                    /\ UNCHANGED <<pendingStates, pendingInterrupts, issued, ckpt,
                                   active, finished, writes, passes, passSched,
                                   passDone, completed, prePass, routedFrom>>
    /\ UNCHANGED <<draft, pool, rvars>>

\* app.py:1081-1086: the exception of the call becomes the error response
respond_error(k) ==
    /\ call[k] = "error"
    /\ call' = [call EXCEPT ![k] = "idle"]
    /\ lastCall' = [lastCall EXCEPT ![k] = NoCall]
    /\ UNCHANGED <<contexts, configs, pendingStates, pendingInterrupts, issued, execContext>>
    /\ UNCHANGED <<draft, pool, gvars, rvars>>

Next ==
    \/ \E t \in SessionIds, context \in PlanContexts : plan_trip(t, context)
    \/ \E t \in SessionIds : budget_estimate(t)
    \/ \E t \in SessionIds : research_plan(t)
    \/ \E t \in SessionIds, cat \in Cats : research_category(t, cat)
    \/ \E t \in SessionIds : research_recommendations(t)
    \/ \E t \in SessionIds : combined_human_review(t)
    \/ \E t \in SessionIds : planner(t)
    \/ \E t \in SessionIds : superstep(t)
    \/ \E tok \in CallKeys : resume_trip(tok)
    \/ \E k \in CallKeys : respond_error(k)

Init ==
    /\ InitWorkflow("core")
    /\ pool = OneSession
    /\ rExisting = NoneWrapper
    /\ rNew = NoneWrapper
    /\ rResult = NoneWrapper
    /\ rDone = FALSE
    /\ sResult = NoResult
    /\ sStatus = "none"
    /\ sDone = FALSE
    /\ GeocodingIdle
    /\ RagIdle

InitWorkflows ==
    /\ InitWorkflow("workflows")
    /\ pool = OneSession
    /\ rExisting = NoneWrapper
    /\ rNew = NoneWrapper
    /\ rResult = NoneWrapper
    /\ rDone = FALSE
    /\ sResult = NoResult
    /\ sStatus = "none"
    /\ sDone = FALSE
    /\ GeocodingIdle
    /\ RagIdle

\* the core draft under the session manager
Spec == Init /\ [][Next]_vars

\* the workflows draft under the session manager
SpecWorkflows == InitWorkflows /\ [][Next]_vars

\* two sessions of the workflows draft under one session manager and one
\* checkpointer
InitSessions ==
    /\ InitWorkflow("workflows")
    /\ pool = SessionIds
    /\ rExisting = NoneWrapper
    /\ rNew = NoneWrapper
    /\ rResult = NoneWrapper
    /\ rDone = FALSE
    /\ sResult = NoResult
    /\ sStatus = "none"
    /\ sDone = FALSE
    /\ GeocodingIdle
    /\ RagIdle

SpecSessions == InitSessions /\ [][Next]_vars

InitReducer ==
    /\ InitWorkflow("core")
    /\ pool = OneSession
    /\ rExisting \in OptWrappers(MaxExisting)
    /\ rNew \in OptWrappers(MaxIncoming)
    /\ rResult = NoneWrapper
    /\ rDone = FALSE
    /\ sResult = NoResult
    /\ sStatus = "none"
    /\ sDone = FALSE
    /\ GeocodingIdle
    /\ RagIdle

ApplyReducer ==
    /\ ~rDone
    /\ rResult' = reducer(rExisting, rNew)
    /\ rDone' = TRUE
    /\ UNCHANGED <<rExisting, rNew, sResult, sStatus, sDone, draft, pool, mvars, gvars, svars>>

NextReducer == ApplyReducer

SpecReducer == InitReducer /\ [][NextReducer]_vars

\* ------------------------------------------------------------------------
\* Status specification: the result is drawn in the initial state and the
\* single action applies _determine_status to it.
\* ------------------------------------------------------------------------
\* the directives of a follow-up plan: absent, blank, or asking for 2
StatusDirectives == {AbsentDirective, BlankDirective, 2}

\* FinalPlan values: None, or a plan with any follow-up ResearchPlan
StatusFinalPlans ==
    {NoFinalPlan, [present |-> TRUE, research_plan |-> NonePlan]}
    \cup {[present |-> TRUE, research_plan |-> Plan(l, a, f, tr)] :
             l \in StatusDirectives, a \in StatusDirectives,
             f \in StatusDirectives, tr \in StatusDirectives}

\* results of graph.ainvoke: with and without the __interrupt__ key
StatusResults ==
    {Result([EmptyState EXCEPT !.final_plan = fp], intr) :
        fp \in StatusFinalPlans, intr \in {NoInterrupt, InterruptValue(EmptyState)}}

InitStatus ==
    /\ InitWorkflow("core")
    /\ pool = OneSession
    /\ rExisting = NoneWrapper
    /\ rNew = NoneWrapper
    /\ rResult = NoneWrapper
    /\ rDone = FALSE
    /\ sResult \in StatusResults
    /\ sStatus = "none"
    /\ sDone = FALSE
    /\ GeocodingIdle
    /\ RagIdle

ApplyStatus ==
    /\ ~sDone
    /\ sStatus' = determine_status(sResult)
    /\ sDone' = TRUE
    /\ UNCHANGED <<sResult, rExisting, rNew, rResult, rDone, draft, pool, mvars, gvars, svars>>

NextStatus == ApplyStatus

SpecStatus == InitStatus /\ [][NextStatus]_vars

\* ---------------------------------------------------------------------
\* The geocoding specification: get_coordinates_nominatim on every lookup
\* outcome, and the research_plan node that gathers it with the LLM call

InitGeocoding ==
    /\ InitWorkflow("core")
    /\ pool = OneSession
    /\ rExisting = NoneWrapper
    /\ rNew = NoneWrapper
    /\ rResult = NoneWrapper
    /\ rDone = FALSE
    /\ sResult = NoResult
    /\ sStatus = "none"
    /\ sDone = FALSE
    /\ RagIdle
    /\ geoLocation \in Locations
    /\ geoLookup \in Lookups
    /\ geoLlm \in LlmOutcomes
    /\ geoStage = "start"
    /\ geoOutcome = NoOutcome
    /\ geoNode = NodeRaised

\* geocoding.py:11-37
lookup_coordinates ==
    /\ geoStage = "start"
    /\ geoOutcome' = get_coordinates_nominatim(geoLocation, geoLookup)
    /\ geoStage' = "looked_up"
    /\ UNCHANGED <<geoLocation, geoLookup, geoLlm, geoNode, ragvars, pvars,
                   draft, pool, mvars, gvars>>

\* nodes.py:208-229: the node awaits both tasks; an exception of either is
\* logged and raised again; the location it looks up is
\* f"{destination}, {destination_country}", never empty
research_plan_gather ==
    /\ geoStage = "looked_up"
    /\ geoLocation # ""
    /\ geoNode' = IF geoOutcome.raised \/ geoLlm.raised
                  THEN NodeRaised
                  ELSE NodeUpdate(geoLlm.plan, geoOutcome.value)
    /\ geoStage' = "done"
    /\ UNCHANGED <<geoLocation, geoLookup, geoLlm, geoOutcome, ragvars, pvars,
                   draft, pool, mvars, gvars>>

NextGeocoding == lookup_coordinates \/ research_plan_gather

SpecGeocoding == InitGeocoding /\ [][NextGeocoding]_vars

\* ---------------------------------------------------------------------
\* The rag specification: add_unique_documents calls on one pipeline,
\* interleaving at the await of aadd_texts

InitRag ==
    /\ InitWorkflow("core")
    /\ pool = OneSession
    /\ rExisting = NoneWrapper
    /\ rNew = NoneWrapper
    /\ rResult = NoneWrapper
    /\ rDone = FALSE
    /\ sResult = NoResult
    /\ sStatus = "none"
    /\ sDone = FALSE
    /\ GeocodingIdle
    /\ RagIdle

\* rag.py:110-126: up to the await of aadd_texts, in one piece; the calls
\* are numbered in the order they start
add_unique_documents(k, docs) ==
    /\ ragCalls[k].stage = "idle"
    /\ \A j \in CallIds : j < k => ragCalls[j].stage # "idle"
    /\ LET texts == unique_texts(docs, ragIndex, <<>>)
       IN ragCalls' = [ragCalls EXCEPT ![k] =
                          IF docs = <<>> \/ texts = <<>>
                          THEN RagCall("returned", docs, <<>>, <<>>)
                          ELSE RagCall("embedding", docs, texts, <<>>)]
    /\ UNCHANGED <<ragIndex, ragDocstore, ragVectors, geovars, pvars,
                   draft, pool, mvars, gvars>>

\* rag.py:126-128: aadd_texts once the embeddings are there.  FAISS adds
\* the vectors to the index, then the documents to the docstore, which
\* raises ValueError for an id it already holds, then extends
\* index_to_docstore_id and returns the ids
aadd_texts(k) ==
    /\ ragCalls[k].stage = "embedding"
    /\ LET ids == [j \in 1..Len(ragCalls[k].texts) |-> sha256(ragCalls[k].texts[j])]
       IN /\ ragVectors' = ragVectors + Len(ids)
          /\ IF Range(ids) \cap ragDocstore # {}
             THEN /\ ragCalls' = [ragCalls EXCEPT ![k] = RagCall("raised", <<>>, <<>>, <<>>)]
                  /\ UNCHANGED <<ragIndex, ragDocstore>>
             ELSE /\ ragDocstore' = ragDocstore \cup Range(ids)
                  /\ ragIndex' = ragIndex \o ids
                  /\ ragCalls' = [ragCalls EXCEPT ![k] = RagCall("returned", <<>>, <<>>, ids)]
    /\ UNCHANGED <<geovars, pvars, draft, pool, mvars, gvars>>

NextRag ==
    \/ \E k \in CallIds : \E docs \in DocBatches : add_unique_documents(k, docs)
    \/ \E k \in CallIds : aadd_texts(k)

SpecRag == InitRag /\ [][NextRag]_vars

\* ------------------------------------------------------------------------
\* Properties of reducer (checked under SpecReducer)
\* ------------------------------------------------------------------------
BothPresent == rExisting.present /\ rNew.present

\* the subsequence of s at the positions in keep, in order
SubSeqAt(s, keep) ==
    LET f[k \in 0..Len(s)] ==
            IF k = 0 THEN <<>>
            ELSE IF k \in keep THEN Append(f[k - 1], s[k]) ELSE f[k - 1]
    IN  f[Len(s)]

\* positions of the incoming items that have no id, or whose id is neither an
\* existing id nor the id of an earlier incoming item
AppendedPositions(existing_items, new_items) ==
    {k \in 1..Len(new_items) :
        \/ new_items[k].id = 0
        \/ /\ new_items[k].id \notin IdsWithValues(existing_items)
           /\ \A j \in 1..(k - 1) : new_items[j].id # new_items[k].id}

\* C3's case: both lists non-empty, incoming no longer than existing, every
\* incoming item carries a non-empty id found among the existing ids
AllIdsKnown ==
    /\ BothPresent
    /\ rExisting.items # <<>>
    /\ rNew.items # <<>>
    /\ Len(rNew.items) <= Len(rExisting.items)
    /\ \A k \in 1..Len(rNew.items) :
          /\ rNew.items[k].id # 0
          /\ rNew.items[k].id \in IdsWithValues(rExisting.items)

\* C3: in the all-ids-known case the result is exactly the incoming list:
\* same items, same order, nothing of the existing list kept or appended.
C3_SubsetReplacesExactly ==
    (rDone /\ AllIdsKnown) => (rResult.present /\ rResult.items = rNew.items)

\* C3 witness: replacement has happened and dropped an existing item
C3_Witness ==
    /\ rDone
    /\ AllIdsKnown
    /\ Len(rNew.items) < Len(rExisting.items)
    /\ \E e \in Range(rExisting.items) : e \notin Range(rNew.items)
    /\ rResult.items = rNew.items

StoredList(st, c) == IF st.cands[c].present THEN st.cands[c].items ELSE <<>>

\* the sublist of s at the 0-based indices idxs, in the order of idxs
Picked(s, idxs) == [k \in 1..Len(idxs) |-> s[idxs[k] + 1]]

\* C1: budget_estimate has returned before research_plan starts,
\* research_plan has returned before any research node starts, and
\* combined_human_review starts only when every research node scheduled in
\* the pass has returned, in whatever order the siblings return.
C1_OrderAndBarrier ==
    \A t \in SessionIds :
        /\ "research_plan" \in active[t] => "budget_estimate" \in completed[t]
        /\ active[t] \cap ResearchNodes # {} => "research_plan" \in completed[t]
        /\ "combined_human_review" \in active[t] => passSched[t] \subseteq passDone[t]

\* C1 witness: review has started after a pass of all five research nodes
\* in which the lodging agent came back empty-handed
C1_Witness ==
    \E t \in SessionIds :
        /\ "combined_human_review" \in active[t]
        /\ run[t] = "running"
        /\ passSched[t] = ResearchNodes
        /\ passDone[t] = ResearchNodes
        /\ StoredList(ckpt[t], "lodging") = <<>>
        /\ StoredList(ckpt[t], "food") # <<>>

\* C2: when combined_human_review has returned, the nodes that run next are
\* exactly the research nodes of the categories the current ResearchPlan
\* names, and planner alone when the plan is absent or names none.
C2_RoutesByPlan ==
    \A t \in SessionIds :
        (routedFrom[t] = {"combined_human_review"} /\ run[t] = "running")
        => LET plan == ckpt[t].research_plan
               named == {c \in Cats : plan.present /\ plan.dirs[c] # AbsentDirective}
           IN  active[t] = IF named # {} THEN {NodeOf(c) : c \in named} ELSE {"planner"}

\* C2 witness: after review, two of the four category nodes were scheduled
C2_Witness ==
    \E t \in SessionIds :
        /\ routedFrom[t] = {"combined_human_review"}
        /\ run[t] = "running"
        /\ active[t] = {"research_activities", "research_intercity_transport"}

\* a follow-up pass has just been folded into the state of t
FollowUpApplied(t) ==
    /\ passes[t] >= 2
    /\ routedFrom[t] # {}
    /\ routedFrom[t] \subseteq CatNodes

\* C5: after a follow-up pass every candidate stored for a re-researched
\* category before the pass is still stored, whatever the node returned.
C5_FollowUpAccumulates ==
    \A t \in SessionIds, c \in Cats :
        (FollowUpApplied(t) /\ NodeOf(c) \in routedFrom[t])
        => Range(prePass[t][c].items) \subseteq Range(StoredList(ckpt[t], c))

\* t's resume call selects exactly one category, c
SelectsOnly(t, c) ==
    /\ lastCall[t].op = "resume_trip"
    /\ \A d \in Cats : lastCall[t].sel[d].given <=> d = c
    /\ call[t] = "error" \/ resumeValue[t].present

\* C6: resume with index i for a single-choice category whose stored list
\* has length n is rejected when n = 0, i < 0 or i >= n, and otherwise
\* succeeds with the serialisation of the i-th stored candidate, and nothing
\* else, under the category's key of the resume payload.
C6_SingleChoiceIndex ==
    \A t \in SessionIds, c \in SingleCats :
        SelectsOnly(t, c)
        => LET options == StoredList(ckpt[t], c)
               n == Len(options)
               i == lastCall[t].sel[c].idxs[1]
           IN  IF n = 0 \/ i < 0 \/ i >= n
               THEN call[t] = "error" /\ lastCall[t].error = "RuntimeError"
               ELSE /\ resumeValue[t].present
                    /\ resumeValue[t].value.sel[c].given
                    /\ resumeValue[t].value.sel[c].dumps
                          = <<model_dump_exclude_none(options[i + 1])>>

\* every category selected, with non-empty index lists, and no override
FullSelection(t) ==
    /\ lastCall[t].op = "resume_trip"
    /\ lastCall[t].invoked
    /\ ~lastCall[t].override
    /\ \A c \in Cats : lastCall[t].sel[c].given /\ lastCall[t].sel[c].idxs # <<>>

SessionData == <<contexts, configs, pendingStates, pendingInterrupts, ckpt, run, resumeValue>>

\* a token that names no started session
Unknown(k) == IF k = NoThread THEN TRUE ELSE contexts[k] = NoCtx

\* C8: resume with a token without thread id, or with an id no session was
\* started under, fails: the graph is not invoked and no stored session data
\* changes; nothing is ever stored under such an id.
C8_UnknownTokenRejected ==
    /\ [](\A k \in ForgedIds :
             /\ contexts[k] = NoCtx
             /\ configs[k] = NoThread
             /\ ~pendingStates[k].present
             /\ execContext[k] = NoCtx)
    /\ [][\A k \in CallKeys :
             (Unknown(k) /\ lastCall'[k].op = "resume_trip" /\ lastCall'[k] # lastCall[k])
             => /\ call'[k] = "error"
                /\ lastCall'[k].error = "RuntimeError"
                /\ ~lastCall'[k].invoked
                /\ UNCHANGED <<SessionData, execContext, active, finished, writes>>]_vars

\* C8 witness: both kinds of token have been rejected while a session is
\* suspended with stored state
C8_Witness ==
    /\ call[NoThread] = "error"
    /\ \E k \in ForgedIds : call[k] = "error" /\ lastCall[k].error = "RuntimeError"
    /\ \E t \in SessionIds : run[t] = "interrupted" /\ pendingInterrupts[t].present

\* the step is a resume call on k that raised a reconciliation error
ResumeRejected(k) ==
    /\ call[k] = "idle"
    /\ call'[k] = "error"
    /\ lastCall'[k].op = "resume_trip"

\* request r, sent after the rejected one with its selections put right
CorrectedRetry(t, r) ==
    /\ r.context = lastCall'[t].context
    /\ PayloadError(draft, pendingStates[t].values, r.selections) = "none"

NoCandidates(st) == \A c \in Cats : StoredList(st, c) = <<>>

NoPlanResume(t) ==
    /\ call[t] = "resume_trip"
    /\ active[t] # {}
    /\ lastCall[t].op = "resume_trip"
    /\ lastCall[t].invoked
    /\ ~lastCall[t].override

\* C11: while a resume without research_plan key is served, no research node
\* is scheduled and the run does not suspend again; once
\* combined_human_review has returned, the state's research plan is absent
\* and planner is the only node scheduled; and when the call returns (the
\* LLM call of planner has returned) the run is done and the result holds a
\* FinalPlan and no interrupt.
C11_NoPlanResumeFinishes ==
    [][\A t \in SessionIds :
          NoPlanResume(t) =>
             /\ run'[t] # "interrupted"
             /\ active'[t] \cap ResearchNodes = {}
             /\ routedFrom'[t] = {"combined_human_review"} =>
                   /\ ~ckpt'[t].research_plan.present
                   /\ active'[t] = {"planner"}
             /\ call'[t] = "idle" =>
                   /\ run'[t] = "done"
                   /\ "planner" \in routedFrom'[t]
                   /\ pendingStates'[t].values.final_plan.present
                   /\ ~pendingInterrupts'[t].present]_vars

\* the review has cleared a plan that named categories and planner is next
C11_Witness ==
    \E t \in SessionIds :
        /\ NoPlanResume(t)
        /\ routedFrom[t] = {"combined_human_review"}
        /\ active[t] = {"planner"}
        /\ Named(pendingStates[t].values.research_plan) # {}
        /\ ~ckpt[t].research_plan.present

\* ------------------------------------------------------------------------
\* C12: planner ends the run
\* ------------------------------------------------------------------------
\* planner has returned in the superstep under way
PlannerReturned(t) == run[t] = "running" /\ "planner" \in finished[t]

ExtraResearchServed(t) ==
    /\ call[t] = "resume_trip"
    /\ lastCall[t].invoked
    /\ pendingStates[t].present
    /\ determine_status(pendingStates[t]) = "needs_follow_up"
    /\ Named(pendingStates[t].values.final_plan.research_plan) # {}
    /\ lastCall[t].plan = pendingStates[t].values.final_plan.research_plan
    /\ lastCall[t].sel = NoSelections

\* C13: an extra-research request that carries the follow-up directive of a
\* needs_follow_up session schedules exactly the research nodes of the
\* categories the directive names, and the call returns with the run
\* suspended at combined_human_review.
C13_ExtraResearchReenters ==
    [][\A t \in SessionIds :
          ExtraResearchServed(t) =>
             /\ active[t] = {} =>
                   active'[t] = {NodeOf(c) : c \in Named(lastCall[t].plan)}
             /\ call'[t] = "idle" =>
                   /\ run'[t] = "interrupted"
                   /\ pendingInterrupts'[t].present]_vars

\* ------------------------------------------------------------------------
\* C14: the categories an extra-research pass leaves alone
\* ------------------------------------------------------------------------
\* the resume call being served for t carries a research plan that names
\* categories
ExtraResearchPass(t) ==
    /\ call[t] = "resume_trip"
    /\ lastCall[t].invoked
    /\ active[t] # {}
    /\ Named(lastCall[t].plan) # {}

\* the categories of the call that are neither named in its research plan
\* nor present in its payload
Untouched(t) ==
    {c \in Cats : c \notin Named(lastCall[t].plan) /\ ~lastCall[t].sel[c].given}

\* C14: no step of a resume that carries a research plan changes the
\* candidate field of a category that is neither named in the plan nor
\* present in the resume payload.
C14_OtherCategoriesUnchanged ==
    [][\A t \in SessionIds :
          ExtraResearchPass(t) =>
             \A c \in Untouched(t) : ckpt'[t].cands[c] = ckpt[t].cands[c]]_vars

\* the pass has re-researched activities while the stored lodging, which the
\* request neither named nor selected, is as it was at the interrupt
C14_Witness ==
    \E t \in SessionIds :
        /\ ExtraResearchPass(t)
        /\ "research_activities" \in passSched[t]
        /\ active[t] = {"combined_human_review"}
        /\ "lodging" \in Untouched(t)
        /\ ckpt[t].cands["lodging"].present
        /\ ckpt[t].cands["lodging"].items # <<>>
        /\ ckpt[t].cands["lodging"] = pendingStates[t].values.cands["lodging"]
        /\ ckpt[t].cands["activities"] # pendingStates[t].values.cands["activities"]

\* ------------------------------------------------------------------------
\* C15: a research agent that raises
\* ------------------------------------------------------------------------
\* the categories of the superstep under way whose agent raised and for
\* which no earlier call has left candidates
RaisedOnly(t) ==
    {c \in writes[t].errors : ~ckpt[t].cands[c].present \/ ckpt[t].cands[c].items = <<>>}

C16_WrapperPresentAfterNode ==
    \A t \in SessionIds :
        \A c \in Cats :
            NodeOf(c) \in completed[t] \ finished[t] => ckpt[t].cands[c].present

\* ------------------------------------------------------------------------
\* C17: an exception of the LLM call of budget_estimate, research_plan or
\* planner
\* ------------------------------------------------------------------------
LlmNodes == {"budget_estimate", "research_plan", "planner"}

\* C17: when the LLM call of budget_estimate, research_plan or planner
\* raises, the call of plan_trip or resume_trip under way ends with that
\* exception and stores nothing; from then on no node of the run executes
\* (the failed node is not run again either) and the run has no FinalPlan,
\* neither in the checkpoint nor in the session's stored result.
C17_LlmErrorIsFatal ==
    /\ [](\A t \in SessionIds :
             run[t] = "failed" =>
                /\ ~ckpt[t].final_plan.present
                /\ ~pendingStates[t].values.final_plan.present
                /\ active[t] \cap LlmNodes # {}
                /\ finished[t] \cap LlmNodes = {})
    /\ [][\A t \in SessionIds :
             /\ run[t] = "running" /\ run'[t] = "failed" =>
                   /\ call'[t] = "error"
                   /\ lastCall'[t].error = "fatal"
                   /\ lastCall'[t].op = lastCall[t].op
                   /\ pendingStates'[t] = pendingStates[t]
                   /\ pendingInterrupts'[t] = pendingInterrupts[t]
                   /\ ckpt'[t] = ckpt[t]
             /\ run[t] = "failed" =>
                   /\ run'[t] = "failed"
                   /\ ckpt'[t] = ckpt[t]
                   /\ finished'[t] = finished[t]
                   /\ active'[t] = active[t]
                   /\ writes'[t] = writes[t]
                   /\ pendingStates'[t] = pendingStates[t]]_vars

\* the LLM call of planner raised during a resume
C17_Witness ==
    \E t \in SessionIds :
        /\ run[t] = "failed"
        /\ active[t] = {"planner"}
        /\ call[t] = "error"
        /\ lastCall[t].op = "resume_trip"
        /\ lastCall[t].error = "fatal"

\* ------------------------------------------------------------------------
\* C18: the status derived from a result
\* ------------------------------------------------------------------------
\* the follow-up plan of the result's FinalPlan names at least one category
HasFollowUp(result) == Named(result.values.final_plan.research_plan) # {}

\* C18: the status of a result is interrupt when it is suspended; else
\* needs_follow_up exactly when a FinalPlan is present whose follow-up plan
\* names at least one category, complete exactly when a FinalPlan is present
\* with no follow-up plan or one that names no category, and no_plan
\* exactly when no FinalPlan is present.
C18_StatusOfResult ==
    sDone =>
        sStatus = IF sResult.interrupt.present THEN "interrupt"
                  ELSE IF ~sResult.values.final_plan.present THEN "no_plan"
                  ELSE IF HasFollowUp(sResult) THEN "needs_follow_up"
                  ELSE "complete"

\* ------------------------------------------------------------------------
\* C19: two sessions under one manager and one checkpointer
\* ------------------------------------------------------------------------
\* what the manager and the checkpointer hold for session t: stored context,
\* resumption token, last-seen state, pending interrupt, checkpointed state
StoredFor(t) ==
    <<contexts[t], configs[t], pendingStates[t], pendingInterrupts[t],
      ckpt[t], run[t], active[t], finished[t], writes[t], resumeValue[t]>>

\* everything the model keeps for session t, the call being served included
AllFor(t) == <<StoredFor(t), call[t], lastCall[t], execContext[t]>>

\* C19: with two sessions served in any interleaving, a step of an operation
\* on one session changes nothing that is stored for the other, and
\* plan_trip never hands out an id that a session already has.
C19_SessionsIsolated ==
    [][/\ \A a \in SessionIds, b \in SessionIds :
             a # b /\ AllFor(a)' # AllFor(a) => StoredFor(b)' = StoredFor(b)
       /\ \A t \in SessionIds :
             call[t] # "plan_trip" /\ call'[t] = "plan_trip" =>
                /\ t \notin issued
                /\ contexts[t] = NoCtx
                /\ \A u \in SessionIds \ {t} : configs'[u] # configs'[t]]_vars

\* both sessions have been started and resumed differently: one has
\* finished under a replaced context, the other is suspended under its own
C19_Witness ==
    /\ run["t1"] = "done"
    /\ contexts["t1"] = "ctx2"
    /\ run["t2"] = "interrupted"
    /\ contexts["t2"] = "ctx1"
    /\ pendingInterrupts["t2"].present
    /\ ~pendingInterrupts["t1"].present
    /\ passes["t2"] = 2

\* ------------------------------------------------------------------------
\* C20: the TripContext of a session
\* ------------------------------------------------------------------------
\* C20: the TripContext stored for a session when it was started is the
\* one stored for it ever after: no later call on the session, accepted or
\* rejected, replaces it.
C20_ContextIsKept ==
    [][\A t \in SessionIds : contexts[t] # NoCtx => contexts'[t] = contexts[t]]_vars

\* ------------------------------------------------------------------------
\* C21: where a run can suspend
\* ------------------------------------------------------------------------
\* C21: every step that leaves a run suspended is a step of
\* combined_human_review, the only node of its superstep, which has not
\* returned; and every call of plan_trip or resume_trip that returns a
\* result with an interrupt returns from such a step.
C21_OnlyReviewSuspends ==
    [][\A t \in SessionIds :
          /\ run[t] # "interrupted" /\ run'[t] = "interrupted" =>
                /\ run[t] = "running"
                /\ active[t] = {"combined_human_review"}
                /\ finished[t] = {}
                /\ active'[t] = active[t]
          /\ call[t] \in {"plan_trip", "resume_trip"} /\ call'[t] = "idle"
                /\ pendingInterrupts'[t].present =>
                /\ run'[t] = "interrupted"
                /\ active[t] = {"combined_human_review"}
                /\ pendingStates'[t].interrupt = pendingInterrupts'[t]]_vars

\* a resume call has returned with an interrupt after a second research pass
C21_Witness ==
    \E t \in SessionIds :
        /\ run[t] = "interrupted"
        /\ passes[t] = 2
        /\ active[t] = {"combined_human_review"}
        /\ pendingInterrupts[t].present
        /\ call[t] = "idle"

\* ------------------------------------------------------------------------
\* C22: reducer(X, X) for a list without ids
\* ------------------------------------------------------------------------
\* reducer was applied to one and the same wrapper twice, whose list is not
\* empty and holds no item with an id
ReplayWithoutIds ==
    /\ rDone
    /\ rExisting = rNew
    /\ rExisting.present
    /\ rExisting.items # <<>>
    /\ IdsWithValues(rExisting.items) = {}

\* C22 as stated: reducer(X, X) for a non-empty list X without ids returns
\* a list of twice the length of X.
C22_ReplayDoubles ==
    ReplayWithoutIds => Len(rResult.items) = 2 * Len(rExisting.items)

\* C22 amended: reducer(X, X) for a non-empty list X without ids returns X:
\* every incoming item matches an existing one by name, url and address,
\* so the incoming list replaces the existing one.
C22_ReplayReturnsSame ==
    ReplayWithoutIds => rResult = rExisting

C22_Witness ==
    /\ ReplayWithoutIds
    /\ Len(rExisting.items) = 2
    /\ rExisting.items[1] # rExisting.items[2]
    /\ rResult = rExisting

\* ------------------------------------------------------------------------
\* C23: reducer and absent wrappers
\* ------------------------------------------------------------------------
\* C23: reducer(existing, None) is existing, reducer(None, incoming) is
\* incoming as it came, and reducer(None, None) is None.
C23_AbsentIsNeutral ==
    rDone =>
        /\ ~rNew.present => rResult = rExisting
        /\ ~rExisting.present => rResult = rNew
        /\ ~rExisting.present /\ ~rNew.present => rResult = NoneWrapper

\* reducer(None, incoming) for an incoming list of two items
C23_Witness ==
    /\ rDone
    /\ ~rExisting.present
    /\ rNew.present
    /\ Len(rNew.items) = 2
    /\ rResult = rNew

\* ------------------------------------------------------------------------
\* C24: an empty index list for a multi-choice category
\* ------------------------------------------------------------------------
\* the resume call being served for t carries an empty index list for the
\* multi-choice category c, which has stored options
KeepsAll(t, c) ==
    /\ call[t] = "resume_trip"
    /\ lastCall[t].invoked
    /\ lastCall[t].sel[c] = Indices(<<>>)
    /\ StoredList(pendingStates[t].values, c) # <<>>

\* C24: a resume with an empty index list for activities or food leaves the
\* stored candidate list of that category as it was: no step of the call
\* changes it, and the result the call returns holds the same list as the
\* last-seen state before it.
C24_EmptyListKeepsAll ==
    [][\A t \in SessionIds :
          \A c \in MultiCats :
             KeepsAll(t, c) =>
                /\ ckpt'[t].cands[c] = ckpt[t].cands[c]
                /\ ckpt[t].cands[c] = pendingStates[t].values.cands[c]
                /\ call'[t] = "idle" =>
                      pendingStates'[t].values.cands[c] = pendingStates[t].values.cands[c]]_vars

\* the review has taken the empty index list for activities and planner is
\* next, with both stored activities still there
C24_Witness ==
    \E t \in SessionIds :
        /\ KeepsAll(t, "activities")
        /\ active[t] = {"planner"}
        /\ Len(ckpt[t].cands["activities"].items) = 2

\* ------------------------------------------------------------------------
\* C25: research without directive
\* ------------------------------------------------------------------------
\* C25: in a research pass, the node of a category for which the current
\* research plan carries no directive is not scheduled, or it returns an
\* empty or default output: a node returns candidates only for a category
\* the plan names.
C25_DirectiveGatesResearch ==
    \A t \in SessionIds :
        \A c \in Cats :
            /\ run[t] = "running"
            /\ NodeOf(c) \in active[t] \cap finished[t]
            /\ c \notin Named(ckpt[t].research_plan)
            => ~writes[t].cands[c].present \/ writes[t].cands[c].items = <<>>

\* ---------------------------------------------------------------------
\* C26: a directive whose candidate count is 0 skips the category: its
\* research node is not scheduled, or it asks its agent for zero
\* candidates, or it returns an empty list.
ZeroDirective(t, c) ==
    /\ ckpt[t].research_plan.present
    /\ ckpt[t].research_plan.dirs[c] = 0

C26_ZeroCountSkipsCategory ==
    \A t \in SessionIds :
        \A c \in Cats :
            /\ run[t] = "running"
            /\ ZeroDirective(t, c)
            /\ NodeOf(c) \in active[t] \cap finished[t]
            => \/ candidates_number(c, ckpt[t].research_plan.dirs[c]) = 0
               \/ ~writes[t].cands[c].present
               \/ writes[t].cands[c].items = <<>>

\* ---------------------------------------------------------------------
\* C27: a geocoding lookup never raises into the workflow: whatever the
\* lookup comes back with, get_coordinates_nominatim returns a "lat,lon"
\* text or None, and when the LLM call returns a plan the research_plan
\* node completes with that plan and that value.
C27_LookupNeverRaises ==
    /\ geoStage \in {"looked_up", "done"} =>
          /\ ~geoOutcome.raised
          /\ \/ geoOutcome.value = NoCoordinates
             \/ \E lat, lon \in CoordValues :
                   geoOutcome.value = FormatCoordinates(lat, lon)
    /\ geoStage = "done" /\ ~geoLlm.raised =>
          geoNode = NodeUpdate(geoLlm.plan, geoOutcome.value)

\* ---------------------------------------------------------------------
\* C28: reducer replaces the existing list with the incoming one only when
\* every incoming item matches an existing item, by id when it carries a
\* non-empty id and else by its name+url+address key; when some incoming
\* item matches no existing item the result is existing plus appended
\* items, so that no existing item is dropped.
MatchesExisting(item, existing_items) ==
    IF item.id # 0
    THEN item.id \in IdsWithValues(existing_items)
    ELSE candidate_key(item) \in {candidate_key(e) : e \in Range(existing_items)}

SomeUnmatched ==
    /\ rExisting.present /\ rNew.present
    /\ rExisting.items # <<>>
    /\ \E k \in 1..Len(rNew.items) : ~MatchesExisting(rNew.items[k], rExisting.items)

C28_ReplaceOnlyWhenAllMatch ==
    rDone /\ SomeUnmatched =>
        /\ Len(rResult.items) >= Len(rExisting.items)
        /\ SubSeq(rResult.items, 1, Len(rExisting.items)) = rExisting.items

\* ---------------------------------------------------------------------
\* C29: whenever a run is suspended, for each category the option list of
\* the interrupt payload and the candidate list the session resolves from
\* its last-seen state are the same candidates in the same order, also
\* after passes of extra research.
OptionsAgree(t, c) ==
    pendingInterrupts[t].selections[c] =
        SeqMap(model_dump, resolve_options(draft, pendingStates[t].values, c))

C29_PayloadMatchesStoredState ==
    \A t \in SessionIds :
        run[t] = "interrupted" /\ call[t] = "idle" =>
            /\ pendingInterrupts[t].present
            /\ \A c \in Cats : OptionsAgree(t, c)

\* ---------------------------------------------------------------------
\* C30: after any sequence of add_unique_documents calls, interleaved at
\* their awaits or not, index_to_docstore_id holds at most one id per
\* distinct content, and a call whose documents are all stored already
\* adds nothing and returns the empty list.
OneIdPerContent(index) ==
    \A c \in Contents :
        Cardinality({i \in 1..Len(index) : index[i] = sha256(c)}) <= 1

AllStored(docs, index) == \A c \in Range(docs) : sha256(c) \in Range(index)

StartsStored(k) ==
    /\ ragCalls[k].stage = "idle"
    /\ ragCalls'[k].stage # "idle"
    /\ AllStored(ragCalls'[k].docs, ragIndex)

====
